---- MODULE Spec2Model ----
(***************************************************************************)
(* MOF water capture: adsorption isotherms (MOFAdsorptionSimulator) and    *)
(* the site ranking (HighAltitudeOptimizer) of                             *)
(* src/water/capture/mof_integration.py.                                   *)
(*                                                                         *)
(* Numbers are exact rationals [n, d] with d > 0 in lowest terms; d = 0    *)
(* stands for the IEEE values a numpy division by zero produces: n = 1 is  *)
(* +inf, n = -1 is -inf and n = 0 is NaN.  Rounding of binary floating     *)
(* point is not modelled.                                                  *)
(***************************************************************************)
EXTENDS Integers, Sequences, FiniteSets

VARIABLES mof_df, altitude_conditions, call, ret

vars == <<mof_df, altitude_conditions, call, ret>>

\* ------------------------------------------------------------------ bounds
\* Longest material table handed to optimize_for_location.
MaxRows == 3
\* Longest humidity array handed to an isotherm function.
MaxSamples == 2
\* Number of points of the humidity grid np.linspace(0.1, 0.9, num) in main.
NumSamples == 3
\* Highest altitude (metres) handed to _categorize_altitude on its own.
MaxAltitude == 3100

\* ------------------------------------------------------------- arithmetic
Abs(x) == IF x < 0 THEN -x ELSE x

Sgn(x) == IF x < 0 THEN -1 ELSE IF x > 0 THEN 1 ELSE 0

RECURSIVE GCD(_, _)
GCD(a, b) == IF b = 0 THEN a ELSE GCD(b, a % b)

\* The finite number n/d (d # 0) in lowest terms with a positive denominator.
\* The sums and products below cancel common factors first, so that the
\* intermediate integers stay small.
Fin(n, d) ==
    LET g == GCD(Abs(n), Abs(d))
        s == Sgn(d)
    IN  [n |-> (s * n) \div g, d |-> (s * d) \div g]

PosInf == [n |-> 1, d |-> 0]

NegInf == [n |-> -1, d |-> 0]

NaN == [n |-> 0, d |-> 0]

IsNaN(x) == x.d = 0 /\ x.n = 0

IsInf(x) == x.d = 0 /\ x.n # 0

IsFinite(x) == x.d # 0

Inf(s) == IF s > 0 THEN PosInf ELSE IF s < 0 THEN NegInf ELSE NaN

\* x + y on floats: inf + (-inf) is NaN.
Add(x, y) ==
    IF IsNaN(x) \/ IsNaN(y) THEN NaN
    ELSE IF IsInf(x) /\ IsInf(y) THEN (IF x.n = y.n THEN x ELSE NaN)
    ELSE IF IsInf(x) THEN x
    ELSE IF IsInf(y) THEN y
    ELSE LET g == GCD(x.d, y.d)
         IN  Fin(x.n * (y.d \div g) + y.n * (x.d \div g), (x.d \div g) * y.d)

\* x * y on floats: inf * 0 is NaN.
Mul(x, y) ==
    IF IsNaN(x) \/ IsNaN(y) THEN NaN
    ELSE IF IsInf(x) \/ IsInf(y) THEN Inf(Sgn(x.n) * Sgn(y.n))
    ELSE LET g == GCD(Abs(x.n), y.d)
             h == GCD(Abs(y.n), x.d)
         IN  Fin((x.n \div g) * (y.n \div h), (x.d \div h) * (y.d \div g))

\* x / y on a numpy array or pandas Series: a zero divisor gives +-inf (NaN
\* for 0/0), never an exception.
Div(x, y) ==
    IF IsNaN(x) \/ IsNaN(y) THEN NaN
    ELSE IF IsInf(y) THEN (IF IsInf(x) THEN NaN ELSE Fin(0, 1))
    ELSE IF y.n = 0 THEN Inf(Sgn(x.n))
    ELSE IF IsInf(x) THEN Inf(Sgn(x.n) * Sgn(y.n))
    ELSE Mul(x, Fin(y.d, y.n))

\* x < y on floats: every comparison with NaN is false.
Lt(x, y) ==
    IF IsNaN(x) \/ IsNaN(y) THEN FALSE
    ELSE IF IsInf(x) THEN x.n < 0 /\ ~(IsInf(y) /\ y.n < 0)
    ELSE IF IsInf(y) THEN y.n > 0
    ELSE x.n * y.d < y.n * x.d

Le(x, y) == ~IsNaN(x) /\ ~IsNaN(y) /\ ~Lt(y, x)

\* np.clip(x, lo, hi) = minimum(maximum(x, lo), hi); NaN stays NaN.
clip(x, lo, hi) ==
    IF IsNaN(x) THEN NaN
    ELSE IF Lt(x, lo) THEN lo
    ELSE IF Lt(hi, x) THEN hi
    ELSE x

\* x ** e for an integer exponent e (np.power): 0 ** negative is +inf.
RECURSIVE power(_, _)
power(x, e) ==
    IF e = 0 THEN Fin(1, 1)
    ELSE IF e < 0 THEN Div(Fin(1, 1), power(x, -e))
    ELSE Mul(x, power(x, e - 1))

RECURSIVE Sum(_)
Sum(s) == IF s = <<>> THEN Fin(0, 1) ELSE Add(Head(s), Sum(Tail(s)))

\* np.mean of a non-empty array.
mean(s) == Div(Sum(s), Fin(Len(s), 1))

\* np.linspace(lo, hi, num) for num >= 2.
linspace(lo, hi, num) ==
    [i \in 1..num |->
        Add(lo, Mul(Fin(i - 1, num - 1), Add(hi, Mul(Fin(-1, 1), lo))))]

\* ------------------------------------------------------------ data model
\* The columns the input loader supplies, and the two the optimizer adds.
RequiredColumns ==
    {"surface_area_m2g", "pore_volume_cm3g", "hydrophilicity",
     "max_water_uptake", "thermal_stability_K", "cost_per_kg"}

InputColumns == RequiredColumns \cup {"Fips"}

\* One material: surface area, pore volume, hydrophilicity, maximal uptake,
\* thermal stability, cost per kg.
Material(sa, pv, h, mu, ts, cost) ==
    [surface_area_m2g |-> sa, pore_volume_cm3g |-> pv, hydrophilicity |-> h,
     max_water_uptake |-> mu, thermal_stability_K |-> ts, cost_per_kg |-> cost]

\* The materials a table is drawn from: two well-formed ones (the first is
\* the one of the end-to-end scenario, its thermal factor is clipped from
\* above; the second's is clipped from below in the two lower bands and not
\* clipped in the two upper ones), one with cost 0 and one with a negative
\* surface area.
Catalogue ==
    <<Material(Fin(1000, 1), Fin(1, 2), Fin(1, 2), Fin(3, 10), Fin(600, 1), Fin(50, 1)),
      Material(Fin(2000, 1), Fin(4, 5), Fin(4, 5), Fin(2, 5), Fin(232, 1), Fin(100, 1)),
      Material(Fin(1000, 1), Fin(1, 2), Fin(1, 2), Fin(3, 10), Fin(600, 1), Fin(0, 1)),
      Material(Fin(-1000, 1), Fin(1, 2), Fin(1, 2), Fin(3, 10), Fin(600, 1), Fin(50, 1))>>

\* A DataFrame: its columns, its index labels and its rows in order.  obj
\* names the Python object that holds it, so that an in-place write through
\* an alias of the caller's table is a write to the caller's table.
DataFrame(obj, columns, index, rows) ==
    [obj |-> obj, columns |-> columns, index |-> index, rows |-> rows]

\* The table the loader builds from the materials ms: a RangeIndex, Fips as
\* the key column, and the columns `present`.
LoadedTable(ms, present) ==
    DataFrame("caller", present,
              [i \in 1..Len(ms) |-> i - 1],
              [i \in 1..Len(ms) |->
                  [c \in present |->
                      IF c = "Fips" THEN Fin(100 + i, 1) ELSE Catalogue[ms[i]][c]]])

MaterialSeqs == UNION {[1..n -> 1..Len(Catalogue)] : n \in 0..MaxRows}

\* The tables a caller may pass: every required column present, or one of
\* them absent.
Tables ==
    {LoadedTable(ms, InputColumns) : ms \in MaterialSeqs}
    \cup {LoadedTable(ms, InputColumns \ {c}) : ms \in MaterialSeqs, c \in RequiredColumns}

\* HighAltitudeOptimizer.__init__
AltitudeConditionsInit ==
    [sea_level |-> [pressure_atm |-> Fin(1, 1), temp_K |-> Fin(298, 1), humidity_avg |-> Fin(6, 10)],
     low_altitude |-> [pressure_atm |-> Fin(95, 100), temp_K |-> Fin(295, 1), humidity_avg |-> Fin(5, 10)],
     mid_altitude |-> [pressure_atm |-> Fin(85, 100), temp_K |-> Fin(288, 1), humidity_avg |-> Fin(4, 10)],
     high_altitude |-> [pressure_atm |-> Fin(7, 10), temp_K |-> Fin(280, 1), humidity_avg |-> Fin(3, 10)]]

\* A location descriptor: a dict that may or may not hold altitude_m.
Location(has, alt) == [has_altitude_m |-> has, altitude_m |-> alt]

SiteAltitudes == {499, 1200, 1500, 3000}

Locations == {Location(TRUE, a) : a \in SiteAltitudes} \cup {Location(FALSE, 0)}

\* --------------------------------------------------- HighAltitudeOptimizer
\* Mutant of _categorize_altitude: the band edges compared with <=.
categorize_altitude_inclusive(altitude_m) ==
    IF altitude_m <= 500 THEN "sea_level"
    ELSE IF altitude_m <= 1500 THEN "low_altitude"
    ELSE IF altitude_m <= 3000 THEN "mid_altitude"
    ELSE "high_altitude"

\* _categorize_altitude
categorize_altitude(altitude_m) ==
    IF altitude_m < 500 THEN "sea_level"
    ELSE IF altitude_m < 1500 THEN "low_altitude"
    ELSE IF altitude_m < 3000 THEN "mid_altitude"
    ELSE "high_altitude"

\* Mutant of copy: the copy is left out, the local name stays an alias of
\* the caller's table.
copy_alias(df) == df

\* DataFrame.copy(): a new object with the same contents.
copy(df) == [df EXCEPT !.obj = "local"]

\* df[col] = values, in place.
setitem(df, col, values) ==
    [df EXCEPT !.columns = @ \cup {col},
               !.rows = [i \in 1..Len(df.rows) |->
                            [c \in (DOMAIN df.rows[i]) \cup {col} |->
                                IF c = col THEN values[i] ELSE df.rows[i][c]]]]

\* The column df[col] as a sequence.
column(df, col) == [i \in 1..Len(df.rows) |-> df.rows[i][col]]

Permutations ==
    [n \in 0..MaxRows |->
        {p \in [1..n -> 1..n] : \A i, j \in 1..n : i # j => p[i] # p[j]}]

\* a may stand directly before b in a descending sort with NaN last.
DescendingPair(a, b) == IsNaN(b) \/ (~IsNaN(a) /\ Le(b, a))

\* Mutant of sort_values: ascending=False is left out.
sort_values_ascending(df, by) ==
    LET n == Len(df.rows)
        key == column(df, by)
    IN  {DataFrame("result", df.columns,
                   [i \in 1..n |-> df.index[p[i]]],
                   [i \in 1..n |-> df.rows[p[i]]]) :
            p \in {q \in Permutations[n] :
                     \A i \in 1..(n - 1) : DescendingPair(key[q[i + 1]], key[q[i]])}}

\* df.sort_values(by, ascending=False) with the default kind='quicksort',
\* which is not a stable sort: every descending order of the rows is a
\* possible result, rows of equal key in any order.  The set of results.
sort_values(df, by) ==
    LET n == Len(df.rows)
        key == column(df, by)
    IN  {DataFrame("result", df.columns,
                   [i \in 1..n |-> df.index[p[i]]],
                   [i \in 1..n |-> df.rows[p[i]]]) :
            p \in {q \in Permutations[n] :
                     \A i \in 1..(n - 1) : DescendingPair(key[q[i]], key[q[i + 1]])}}

\* The columns optimize_for_location reads, in the order it reads them.
ReadOrder ==
    <<"hydrophilicity", "thermal_stability_K", "surface_area_m2g",
      "pore_volume_cm3g", "cost_per_kg", "max_water_uptake">>

\* The first column of ReadOrder missing from df: 0 when none is.
FirstMissing(df) ==
    LET miss == {k \in 1..Len(ReadOrder) : ReadOrder[k] \notin df.columns}
    IN  IF miss = {} THEN 0 ELSE CHOOSE k \in miss : \A m \in miss : k <= m

\* Mutant of performance_score: the thermal factor is not clipped.
performance_score_unclipped(row, conditions) ==
    LET humidity_factor == Div(row["hydrophilicity"], conditions.humidity_avg)
        temp_factor == Div(row["thermal_stability_K"], conditions.temp_K)
        capacity_factor == Mul(Div(row["surface_area_m2g"], Fin(1000, 1)),
                               row["pore_volume_cm3g"])
        cost_factor == Div(Fin(1, 1), Div(row["cost_per_kg"], Fin(50, 1)))
    IN  Add(Add(Add(Mul(Fin(3, 10), humidity_factor),
                    Mul(Fin(25, 100), temp_factor)),
                Mul(Fin(25, 100), capacity_factor)),
            Mul(Fin(2, 10), cost_factor))

\* performance_score of one row under the band's conditions.
performance_score(row, conditions) ==
    LET humidity_factor == Div(row["hydrophilicity"], conditions.humidity_avg)
        temp_factor == clip(Div(row["thermal_stability_K"], conditions.temp_K),
                            Fin(8, 10), Fin(12, 10))
        capacity_factor == Mul(Div(row["surface_area_m2g"], Fin(1000, 1)),
                               row["pore_volume_cm3g"])
        cost_factor == Div(Fin(1, 1), Div(row["cost_per_kg"], Fin(50, 1)))
    IN  Add(Add(Add(Mul(Fin(3, 10), humidity_factor),
                    Mul(Fin(25, 100), temp_factor)),
                Mul(Fin(25, 100), capacity_factor)),
            Mul(Fin(2, 10), cost_factor))

\* estimated_daily_yield of one row.
estimated_daily_yield(row, conditions) ==
    Mul(Mul(row["max_water_uptake"], conditions.humidity_avg), Fin(4, 1))

Return(v) == [kind |-> "return", exc |-> "", value |-> v]

Raise(e) == [kind |-> "raise", exc |-> e, value |-> <<>>]

\* optimize_for_location(mof_df, location_data)
OptimizeForLocation(location) ==
    LET work == copy(mof_df)
        altitude_category ==
            categorize_altitude(IF location.has_altitude_m THEN location.altitude_m ELSE 0)
        conditions == altitude_conditions[altitude_category]
        missing == FirstMissing(work)
        n == Len(work.rows)
        \* the score column is assigned once the five columns it reads exist
        scored ==
            IF missing \in {0, 6}
            THEN setitem(work, "performance_score",
                         [i \in 1..n |-> performance_score(work.rows[i], conditions)])
            ELSE work
        yielded ==
            IF missing = 0
            THEN setitem(scored, "estimated_daily_yield",
                         [i \in 1..n |-> estimated_daily_yield(scored.rows[i], conditions)])
            ELSE scored
    IN  /\ call' = [op |-> "optimize_for_location", location |-> location]
        /\ mof_df' = IF work.obj = "caller" THEN yielded ELSE mof_df
        /\ UNCHANGED altitude_conditions
        /\ IF missing # 0
           THEN ret' = Raise("KeyError")
           ELSE \E out \in sort_values(yielded, "performance_score") : ret' = Return(out)

\* -------------------------------------------------- MOFAdsorptionSimulator
\* The exponent 1/n handed to np.power, for the n whose inverse is a whole
\* number (the only exponents the inputs below produce).
power_of(x, e) == power(x, e.n)

\* Mutant of langmuir: the denominator is 1 - K*P.
langmuir_minus(P, q_max, K) ==
    Div(Mul(Mul(q_max, K), P), Add(Fin(1, 1), Mul(Fin(-1, 1), Mul(K, P))))

\* langmuir_isotherm on one array element.
langmuir(P, q_max, K) ==
    Div(Mul(Mul(q_max, K), P), Add(Fin(1, 1), Mul(K, P)))

\* langmuir_isotherm, element-wise on the array P.
langmuir_isotherm(P, q_max, K) == [i \in 1..Len(P) |-> langmuir(P[i], q_max, K)]

\* Mutant of freundlich_isotherm: a zero n is guarded with the exponent 0
\* instead of raising.
freundlich_isotherm_guarded(P, K_f, n) ==
    Return([i \in 1..Len(P) |->
               Mul(K_f, power_of(P[i], IF n.n = 0 THEN Fin(0, 1) ELSE Div(Fin(1, 1), n)))])

\* freundlich_isotherm: 1/n is a division of Python scalars, which raises
\* ZeroDivisionError for n = 0 before np.power is reached.
freundlich_isotherm(P, K_f, n) ==
    IF n.n = 0 THEN Raise("ZeroDivisionError")
    ELSE Return([i \in 1..Len(P) |->
                    Mul(K_f, power_of(P[i], Div(Fin(1, 1), n)))])

\* toth_isotherm: (b*P)**t is computed first, then 1/t raises for t = 0.
toth_isotherm(P, q_max, b, t) ==
    IF t.n = 0 THEN Raise("ZeroDivisionError")
    ELSE Return([i \in 1..Len(P) |->
                    Div(Mul(q_max, Mul(b, P[i])),
                        power_of(Add(Fin(1, 1), power_of(Mul(b, P[i]), t)),
                                 Div(Fin(1, 1), t)))])

\* Mutant of get: the default is dropped and 0 stands for an absent key.
get_zero(d, key, default) == IF key \in DOMAIN d THEN d[key] ELSE Fin(0, 1)

\* dict.get(key, default)
get(d, key, default) == IF key \in DOMAIN d THEN d[key] ELSE default

\* simulate_mof_performance(mof_properties, humidity_range)
simulate_mof_performance(mof_properties, humidity_range) ==
    LET surface_area == get(mof_properties, "surface_area_m2g", Fin(1000, 1))
        pore_volume == get(mof_properties, "pore_volume_cm3g", Fin(5, 10))
        hydrophilicity == get(mof_properties, "hydrophilicity", Fin(5, 10))
        max_uptake == get(mof_properties, "max_water_uptake", Fin(3, 10))
        q_max == Mul(max_uptake, Add(Fin(1, 1), Mul(Fin(3, 10), hydrophilicity)))
        K == Mul(Mul(Fin(5, 1), hydrophilicity), Div(surface_area, Fin(1000, 1)))
        water_uptake == langmuir_isotherm(humidity_range, q_max, K)
        cycles_per_day == Fin(4, 1)
        avg_uptake == mean(water_uptake)
        daily_yield == Mul(avg_uptake, cycles_per_day)
    IN  Return([humidity |-> humidity_range,
                water_uptake |-> water_uptake,
                daily_yield_L_kg_day |-> daily_yield,
                q_max |-> q_max,
                K |-> K,
                model |-> "langmuir"])

\* ----------------------------------------------------------------- inputs
\* Humidity / pressure values of an array element.
PressureGrid == {Fin(-1, 2), Fin(0, 1), Fin(1, 2), Fin(1, 1), Fin(2, 1)}

\* Values of q_max, K, K_f and b.
ParamGrid == {Fin(-2, 1), Fin(0, 1), Fin(1, 2), Fin(3, 1)}

\* Values of the exponent parameters n and t whose inverse is a whole number.
FreundlichExponents == {Fin(0, 1), Fin(1, 1), Fin(1, 2), Fin(-1, 1)}

TothExponents == {Fin(0, 1), Fin(1, 1), Fin(-1, 1)}

Arrays == UNION {[1..n -> PressureGrid] : n \in 1..MaxSamples}

\* A material as a dict, complete or with one key absent.
MaterialDicts ==
    {Catalogue[k] : k \in 1..Len(Catalogue)}
    \cup {[c \in RequiredColumns \ {x} |-> Catalogue[k][c]] :
             k \in 1..Len(Catalogue), x \in RequiredColumns}

\* ---------------------------------------------------------------- actions
NoCall == [op |-> "none"]

NoReturn == [kind |-> "none", exc |-> "", value |-> <<>>]

Init ==
    /\ mof_df \in Tables
    /\ altitude_conditions = AltitudeConditionsInit
    /\ call = NoCall
    /\ ret = NoReturn

\* simulator.simulate_mof_performance(mof_properties, humidity_range)
Simulate(mof_properties, humidity_range) ==
    /\ call' = [op |-> "simulate_mof_performance",
                mof_properties |-> mof_properties,
                humidity_range |-> humidity_range]
    /\ ret' = simulate_mof_performance(mof_properties, humidity_range)
    /\ UNCHANGED <<mof_df, altitude_conditions>>

\* main, step 2: the first row of the table as a dict, on the grid
\* np.linspace(0.1, 0.9, num).
SimulateSample ==
    /\ Len(mof_df.rows) > 0
    /\ Simulate(mof_df.rows[1], linspace(Fin(1, 10), Fin(9, 10), NumSamples))

Optimize == \E location \in Locations : OptimizeForLocation(location)

Next == Optimize \/ SimulateSample

Spec == Init /\ [][Next]_vars

\* The isotherm functions and the altitude bands on their own: the initial
\* state holds the arguments of one call, the action applies the function.
LangmuirCalls ==
    {[op |-> "langmuir_isotherm", P |-> P, q_max |-> q_max, K |-> K] :
        P \in Arrays, q_max \in ParamGrid, K \in ParamGrid}

FreundlichCalls ==
    {[op |-> "freundlich_isotherm", P |-> P, K_f |-> K_f, n |-> n] :
        P \in Arrays, K_f \in ParamGrid, n \in FreundlichExponents}

TothCalls ==
    {[op |-> "toth_isotherm", P |-> P, q_max |-> q_max, b |-> b, t |-> t] :
        P \in Arrays, q_max \in ParamGrid, b \in ParamGrid, t \in TothExponents}

SimulateCalls ==
    {[op |-> "simulate_mof_performance", mof_properties |-> m, humidity_range |-> hr] :
        m \in MaterialDicts, hr \in Arrays}

CategorizeCalls ==
    {[op |-> "_categorize_altitude", altitude_m |-> a] : a \in (-100)..MaxAltitude}

InitPure ==
    /\ mof_df = LoadedTable(<<>>, InputColumns)
    /\ altitude_conditions = AltitudeConditionsInit
    /\ call \in LangmuirCalls \cup FreundlichCalls \cup TothCalls
                \cup SimulateCalls \cup CategorizeCalls
    /\ ret = NoReturn

CallLangmuir ==
    /\ call.op = "langmuir_isotherm"
    /\ ret = NoReturn
    /\ ret' = Return(langmuir_isotherm(call.P, call.q_max, call.K))
    /\ UNCHANGED <<mof_df, altitude_conditions, call>>

CallFreundlich ==
    /\ call.op = "freundlich_isotherm"
    /\ ret = NoReturn
    /\ ret' = freundlich_isotherm(call.P, call.K_f, call.n)
    /\ UNCHANGED <<mof_df, altitude_conditions, call>>

CallToth ==
    /\ call.op = "toth_isotherm"
    /\ ret = NoReturn
    /\ ret' = toth_isotherm(call.P, call.q_max, call.b, call.t)
    /\ UNCHANGED <<mof_df, altitude_conditions, call>>

CallSimulate ==
    /\ call.op = "simulate_mof_performance"
    /\ ret = NoReturn
    /\ ret' = simulate_mof_performance(call.mof_properties, call.humidity_range)
    /\ UNCHANGED <<mof_df, altitude_conditions, call>>

CallCategorize ==
    /\ call.op = "_categorize_altitude"
    /\ ret = NoReturn
    /\ ret' = Return(categorize_altitude(call.altitude_m))
    /\ UNCHANGED <<mof_df, altitude_conditions, call>>

NextPure == CallLangmuir \/ CallFreundlich \/ CallToth \/ CallSimulate \/ CallCategorize

SpecPure == InitPure /\ [][NextPure]_vars

\* ----------------------------------------------------------------- claims
Bands == {"sea_level", "low_altitude", "mid_altitude", "high_altitude"}

OptimizeCalled == call.op = "optimize_for_location" /\ ret.kind # "none"

OptimizeReturned == call.op = "optimize_for_location" /\ ret.kind = "return"

SimulateCalled == call.op = "simulate_mof_performance" /\ ret.kind # "none"

AllColumnsPresent == RequiredColumns \subseteq mof_df.columns

\* A row of the data model: every field present and finite, hydrophilicity
\* in [0, 1] and the other five positive.
WellFormed(row) ==
    /\ \A c \in RequiredColumns : c \in DOMAIN row /\ IsFinite(row[c])
    /\ \A c \in RequiredColumns \ {"hydrophilicity"} : row[c].n > 0
    /\ row["hydrophilicity"].n >= 0
    /\ Le(row["hydrophilicity"], Fin(1, 1))

AllRowsWellFormed == \A i \in 1..Len(mof_df.rows) : WellFormed(mof_df.rows[i])

\* The score of row i of the returned ranking.
ScoreAt(i) == ret.value.rows[i]["performance_score"]

\* C1: _categorize_altitude returns exactly one band for every altitude:
\* sea_level below 500, low_altitude from 500 to below 1500, mid_altitude
\* from 1500 to below 3000, high_altitude from 3000 on; 499, 500, 1499 and
\* 3000 fall in sea_level, low_altitude, low_altitude and high_altitude.
C1_AltitudeBands ==
    (call.op = "_categorize_altitude" /\ ret.kind # "none") =>
        LET a == call.altitude_m
        IN  /\ ret.kind = "return"
            /\ ret.value \in Bands
            /\ (ret.value = "sea_level") <=> (a < 500)
            /\ (ret.value = "low_altitude") <=> (500 <= a /\ a < 1500)
            /\ (ret.value = "mid_altitude") <=> (1500 <= a /\ a < 3000)
            /\ (ret.value = "high_altitude") <=> (a >= 3000)
            /\ (a = 499 => ret.value = "sea_level")
            /\ (a = 500 => ret.value = "low_altitude")
            /\ (a = 1499 => ret.value = "low_altitude")
            /\ (a = 3000 => ret.value = "high_altitude")

\* C1 witness: the boundary 500 has been classified as low_altitude.
C1_Witness ==
    /\ call.op = "_categorize_altitude"
    /\ call.altitude_m = 500
    /\ ret.kind = "return"
    /\ ret.value = "low_altitude"

\* C2: on a table of well-formed materials optimize_for_location returns
\* every input row exactly once, none added, and each row's score is at
\* least the score of the row after it.
C2_PermutationSortedDescending ==
    (OptimizeReturned /\ AllRowsWellFormed) =>
        LET out == ret.value
            n == Len(mof_df.rows)
        IN  /\ Len(out.rows) = n
            /\ Len(out.index) = n
            /\ \A l \in 0..(n - 1) :
                  Cardinality({i \in 1..n : out.index[i] = l}) = 1
            /\ \A i \in 1..n :
                  /\ out.index[i] \in 0..(n - 1)
                  /\ \A c \in InputColumns :
                        out.rows[i][c] = mof_df.rows[out.index[i] + 1][c]
            /\ \A i \in 1..(n - 1) : Le(ScoreAt(i + 1), ScoreAt(i))

\* C2 witness: a ranking of three well-formed rows that moved the first
\* input row away from the top.
C2_Witness ==
    /\ OptimizeReturned
    /\ AllRowsWellFormed
    /\ Len(ret.value.rows) = 3
    /\ ret.value.index[1] # 0
    /\ Lt(ScoreAt(3), ScoreAt(1))

\* C3 (as claimed): two rows of equal score keep their input order in the
\* returned ranking.
C3_StableTies ==
    OptimizeReturned =>
        \A i, j \in 1..Len(ret.value.rows) :
            (i < j /\ ScoreAt(i) = ScoreAt(j)) =>
                ret.value.index[i] < ret.value.index[j]

\* C4 (as claimed): a table holding a material with cost_per_kg = 0 makes
\* optimize_for_location raise instead of returning a ranking.
C4_ZeroCostRaises ==
    (OptimizeCalled /\ AllColumnsPresent
       /\ \E i \in 1..Len(mof_df.rows) : mof_df.rows[i]["cost_per_kg"].n = 0)
    => ret.kind = "raise"

\* C5 (as claimed): no row with a negative surface area, pore volume or
\* cost per kg appears with a score in a returned ranking.
C5_NegativeRejected ==
    OptimizeReturned =>
        \A i \in 1..Len(ret.value.rows) :
            \A c \in {"surface_area_m2g", "pore_volume_cm3g", "cost_per_kg"} :
                ret.value.rows[i][c].n >= 0

\* The fields simulate_mof_performance requires, as the claim lists them.
SimulateFields ==
    {"surface_area_m2g", "pore_volume_cm3g", "hydrophilicity", "max_water_uptake"}

\* C6 (as claimed): either operation fails when a required field is absent
\* from its input.
C6_MissingFieldFatal ==
    /\ (OptimizeCalled /\ ~AllColumnsPresent) => ret.kind = "raise"
    /\ (SimulateCalled /\ ~(SimulateFields \subseteq DOMAIN call.mof_properties))
          => ret.kind = "raise"

\* C6 (amended): optimize_for_location raises KeyError when one of its six
\* columns is absent; simulate_mof_performance never fails on an absent
\* field but computes q_max and K with 0.5 for an absent hydrophilicity,
\* 0.3 for an absent max_water_uptake and 1000 for an absent surface area.
C6_OptimizerFatalSimulatorDefaults ==
    /\ (OptimizeCalled /\ ~AllColumnsPresent) =>
          (ret.kind = "raise" /\ ret.exc = "KeyError")
    /\ SimulateCalled =>
          LET m == call.mof_properties
              h == IF "hydrophilicity" \in DOMAIN m THEN m["hydrophilicity"] ELSE Fin(1, 2)
              mu == IF "max_water_uptake" \in DOMAIN m THEN m["max_water_uptake"] ELSE Fin(3, 10)
              sa == IF "surface_area_m2g" \in DOMAIN m THEN m["surface_area_m2g"] ELSE Fin(1000, 1)
          IN  /\ ret.kind = "return"
              /\ ret.value.q_max = Fin(mu.n * (10 * h.d + 3 * h.n), mu.d * 10 * h.d)
              /\ ret.value.K = Fin(5 * h.n * sa.n, h.d * sa.d * 1000)

\* C6 witness: a simulation of a material without hydrophilicity returned.
C6_Witness ==
    /\ SimulateCalled
    /\ "hydrophilicity" \notin DOMAIN call.mof_properties
    /\ ret.kind = "return"
    /\ ret.value.K = Fin(5, 2)

\* C7: no call changes the caller's table (rows, row order, columns) or the
\* altitude-band table.
C7_InputsUnchanged ==
    [][mof_df' = mof_df /\ altitude_conditions' = altitude_conditions]_vars

\* C7 witness: a ranking was returned with the two added columns and in
\* another order than the caller's table, which has neither column.
C7_Witness ==
    /\ OptimizeReturned
    /\ Len(mof_df.rows) >= 2
    /\ {"performance_score", "estimated_daily_yield"} \subseteq ret.value.columns
    /\ mof_df.columns = InputColumns
    /\ ret.value.index # mof_df.index
    /\ altitude_conditions = AltitudeConditionsInit

NonNegative(x) == IsFinite(x) /\ x.n >= 0

\* C8: for q_max >= 0, K >= 0 and P >= 0 the Langmuir uptake is 0 at P = 0,
\* never decreases when P grows and never exceeds q_max; hence the uptake
\* curve of simulate_mof_performance never decreases along growing humidity.
C8_LangmuirMonotoneBounded ==
    /\ (/\ call.op = "langmuir_isotherm"
        /\ ret.kind # "none"
        /\ NonNegative(call.q_max)
        /\ NonNegative(call.K)
        /\ \A i \in 1..Len(call.P) : NonNegative(call.P[i]))
       => /\ ret.kind = "return"
          /\ Len(ret.value) = Len(call.P)
          /\ \A i \in 1..Len(call.P) :
                /\ call.P[i].n = 0 => ret.value[i] = Fin(0, 1)
                /\ Le(ret.value[i], call.q_max)
          /\ \A i, j \in 1..Len(call.P) :
                Le(call.P[i], call.P[j]) => Le(ret.value[i], ret.value[j])
    /\ (/\ SimulateCalled
        /\ ret.kind = "return"
        /\ NonNegative(ret.value.q_max)
        /\ NonNegative(ret.value.K)
        /\ \A i \in 1..Len(call.humidity_range) : NonNegative(call.humidity_range[i]))
       => /\ Len(ret.value.water_uptake) = Len(call.humidity_range)
          /\ \A i, j \in 1..Len(call.humidity_range) :
                Le(call.humidity_range[i], call.humidity_range[j])
                    => Le(ret.value.water_uptake[i], ret.value.water_uptake[j])

\* C8 witness: a Langmuir curve over two growing pressures with positive
\* parameters that grew strictly and stayed below q_max.
C8_Witness ==
    /\ call.op = "langmuir_isotherm"
    /\ ret.kind = "return"
    /\ call.q_max = Fin(3, 1)
    /\ call.K = Fin(1, 2)
    /\ call.P = <<Fin(1, 2), Fin(2, 1)>>
    /\ Lt(ret.value[1], ret.value[2])
    /\ Lt(ret.value[2], call.q_max)

\* C9: for a table of one well-formed material the ranking has one row,
\* whose score is 0.3*(hydrophilicity/humidityAvg)
\* + 0.25*clip(thermalStabilityK/tempK, 0.8, 1.2)
\* + 0.25*((surfaceAreaM2g/1000)*poreVolumeCm3g) + 0.2*(1/(costPerKg/50))
\* with the humidityAvg and tempK of the altitude's band; the material
\* {1000, 0.5, 0.5, 0.3, 600, 50} at 1200 m scores 0.925.
C9_SingleRowClosedForm ==
    (OptimizeReturned /\ Len(mof_df.rows) = 1 /\ AllRowsWellFormed) =>
        LET m == mof_df.rows[1]
            a == IF call.location.has_altitude_m THEN call.location.altitude_m ELSE 0
            humidityAvg == IF a < 500 THEN Fin(6, 10)
                           ELSE IF a < 1500 THEN Fin(5, 10)
                           ELSE IF a < 3000 THEN Fin(4, 10)
                           ELSE Fin(3, 10)
            tempK == IF a < 500 THEN 298
                     ELSE IF a < 1500 THEN 295
                     ELSE IF a < 3000 THEN 288
                     ELSE 280
            ts == m["thermal_stability_K"]
            \* ts/tempK against 4/5 and 6/5, by cross-multiplication
            tempFactor == IF 5 * ts.n < 4 * tempK * ts.d THEN Fin(4, 5)
                          ELSE IF 5 * ts.n > 6 * tempK * ts.d THEN Fin(6, 5)
                          ELSE Fin(ts.n, ts.d * tempK)
            humidityFactor == Fin(m["hydrophilicity"].n * humidityAvg.d,
                                  m["hydrophilicity"].d * humidityAvg.n)
            capacityFactor == Fin(m["surface_area_m2g"].n * m["pore_volume_cm3g"].n,
                                  1000 * m["surface_area_m2g"].d * m["pore_volume_cm3g"].d)
            costFactor == Fin(50 * m["cost_per_kg"].d, m["cost_per_kg"].n)
            expected == Add(Add(Mul(Fin(3, 10), humidityFactor), Mul(Fin(1, 4), tempFactor)),
                            Add(Mul(Fin(1, 4), capacityFactor), Mul(Fin(1, 5), costFactor)))
        IN  /\ Len(ret.value.rows) = 1
            /\ ScoreAt(1) = expected
            /\ ((a = 1200 /\ \A c \in RequiredColumns : m[c] = Catalogue[1][c])
                   => ScoreAt(1) = Fin(925, 1000))

\* C9 witness: the end-to-end scenario, scored 0.925 in the low_altitude band.
C9_Witness ==
    /\ OptimizeReturned
    /\ Len(mof_df.rows) = 1
    /\ \A c \in RequiredColumns : mof_df.rows[1][c] = Catalogue[1][c]
    /\ call.location = Location(TRUE, 1200)
    /\ ScoreAt(1) = Fin(37, 40)

\* C10: freundlich_isotherm with n = 0 and toth_isotherm with t = 0 raise
\* and return no uptake, for every array of P >= 0.
C10_ZeroExponentRaises ==
    /\ (call.op = "freundlich_isotherm" /\ ret.kind # "none" /\ call.n.n = 0)
          => ret.kind = "raise"
    /\ (call.op = "toth_isotherm" /\ ret.kind # "none" /\ call.t.n = 0)
          => ret.kind = "raise"

\* C10 witness: a Freundlich call with n = 0 on non-negative pressures raised
\* ZeroDivisionError.
C10_Witness ==
    /\ call.op = "freundlich_isotherm"
    /\ call.n = Fin(0, 1)
    /\ \A i \in 1..Len(call.P) : NonNegative(call.P[i])
    /\ ret.kind = "raise"
    /\ ret.exc = "ZeroDivisionError"
====
